---- MODULE Spec2Model ----
(***************************************************************************)
(* The terminal panel of lapce-ui/src/terminal.rs as a state machine.      *)
(*                                                                         *)
(* data.terminal (tabs_order, tabs, active) is the tab collection, each    *)
(* tab a split of panes.  TerminalPanel keeps one split view per tab       *)
(* (self.tabs, here `views`), each holding the pane views (LapceTerminal)  *)
(* of its split.  A pane view that is dropped signals terminal_close.      *)
(*                                                                         *)
(* The operations of the collection itself (open_tab, close_tab, add_pane, *)
(* remove_pane, active_terminal_split, active_terminal) live in the        *)
(* lapce-data crate; they are modelled from the specification.             *)
(***************************************************************************)
EXTENDS Integers, Sequences, FiniteSets, TLC

\* Number of tab ids (WidgetId::next) a behaviour may allocate.
MaxTabs == 3
\* Number of pane ids (TermId::next) a behaviour may allocate.
MaxPanes == 2

\* The id held by the `active` fields of a split that has no pane yet.
NoId == 0

TabIds == 1..MaxTabs
PaneIds == 1..MaxPanes

VARIABLES
    tabs_order,      \* data.terminal.tabs_order: sequence of tab ids
    tabs,            \* data.terminal.tabs: tab id -> split data
    active,          \* data.terminal.active: stored index into tabs_order (0-based)
    nextTab,         \* next tab id to allocate
    nextPane,        \* next pane id to allocate
    views,           \* TerminalPanel.tabs: tab id -> set of pane views
    items,           \* LapceTerminalPanelHeaderContent.items: set of tab ids
    closed,          \* pane id -> number of terminal_close signals received
    focus,           \* [owner, area]: data.focus and data.focus_area
    panel_visible,   \* data.panel.is_panel_visible(Terminal)
    term_dirty,      \* data.terminal differs from the old_data of the next update
    order_dirty,     \* data.terminal.tabs_order differs from that old_data
    fatal,           \* a handler aborted (unwrap on None, capacity underflow)
    last,            \* what the last step did (history)
    sel,             \* one pane under pointer input: its selection
    pane,            \* one pane under layout, paint and keys: its geometry, mode
    srch,            \* one paint pass of a pane: its search-highlight loop
    pnt,             \* one paint pass of a pane: what it draws
    lk               \* the session lock of a pane and who holds it

\* The state of the panel and of the collection.
panelVars == <<tabs_order, tabs, active, nextTab, nextPane, views, items,
               closed, focus, panel_visible, term_dirty, order_dirty,
               fatal, last>>

\* The state of the single pane looked at on its own.
paneVars == <<sel, pane, srch, pnt, lk>>

vars == <<tabs_order, tabs, active, nextTab, nextPane, views, items, closed,
          focus, panel_visible, term_dirty, order_dirty,
          fatal, last, sel, pane, srch, pnt, lk>>

(***************************************************************************)
(* Helpers                                                                 *)
(***************************************************************************)
Min(a, b) == IF a < b THEN a ELSE b

Range(s) == {s[i] : i \in 1..Len(s)}

\* usize::saturating_sub
saturating_sub(a, b) == IF a > b THEN a - b ELSE 0

\* f restricted to the keys outside ks (HashMap::remove for each key)
RemoveKeys(f, ks) == [k \in (DOMAIN f) \ ks |-> f[k]]

\* f with key k set to v (HashMap::insert)
Insert(f, k, v) == [x \in (DOMAIN f) \cup {k} |-> IF x = k THEN v ELSE f[x]]

PaneTarget(p) == [kind |-> "pane", id |-> p]
MainTarget == [kind |-> "main", id |-> NoId]
PanelTarget == [kind |-> "panel", id |-> NoId]

\* An empty split: TerminalSplitData with no terminal.
EmptySplit == [terminals |-> {}, active |-> NoId, active_term_id |-> NoId]

(***************************************************************************)
(* The state a handler works on, as one record, so that the steps of a     *)
(* handler compose.                                                        *)
(***************************************************************************)
Cur ==
    [tabs_order |-> tabs_order, tabs |-> tabs, active |-> active,
     nextTab |-> nextTab, views |-> views, closed |-> closed, focus |-> focus,
     panel_visible |-> panel_visible, term_dirty |-> term_dirty,
     order_dirty |-> order_dirty, fatal |-> fatal, sent |-> <<>>]

\* The index the code uses as the active one: the stored index clamped.
active_index(s) ==
    Min(s.active, saturating_sub(Len(s.tabs_order), 1))

\* TerminalPanelData::active_terminal_split, as the id of the split or NoId.
active_terminal_split(s) ==
    IF s.tabs_order = <<>> THEN NoId
    ELSE LET id == s.tabs_order[active_index(s) + 1]
         IN  IF id \in DOMAIN s.tabs THEN id ELSE NoId

\* TerminalPanelData::active_terminal, as the pane id or NoId.
active_terminal(s) ==
    LET t == active_terminal_split(s)
    IN  IF t = NoId THEN NoId
        ELSE IF s.tabs[t].active_term_id \in s.tabs[t].terminals
             THEN s.tabs[t].active_term_id
             ELSE NoId

\* TerminalPanelData::new_tab, which is open_tab: a new, initially empty
\* split is appended to tabs_order and inserted into tabs; it is not selected.
new_tab(s) ==
    [s EXCEPT !.tabs_order = Append(@, s.nextTab),
              !.tabs = Insert(@, s.nextTab, EmptySplit),
              !.nextTab = @ + 1,
              !.term_dirty = TRUE,
              !.order_dirty = TRUE]

\* handle_focus without its else branch: with no active pane it does nothing.
handle_focus_no_new_tab(s) ==
    LET term == active_terminal(s)
    IN  IF term # NoId
        THEN [s EXCEPT !.sent = Append(@, PaneTarget(term))]
        ELSE s

(***************************************************************************)
(* TerminalPanel::handle_focus                                             *)
(***************************************************************************)
handle_focus(s) ==
    LET term == active_terminal(s)
    IN  IF term # NoId
        THEN [s EXCEPT !.sent = Append(@, PaneTarget(term))]
        ELSE new_tab(s)

(***************************************************************************)
(* LapceTerminal::request_focus, for the pane view of pane p.  The split   *)
(* it writes to is the ACTIVE split, whatever split the view belongs to.   *)
(***************************************************************************)
request_focus(s, p) ==
    LET a == active_terminal_split(s)
    IN  IF a = NoId
        THEN [s EXCEPT !.term_dirty = TRUE, !.fatal = TRUE]
        ELSE [s EXCEPT !.tabs[a].active = p,
                       !.tabs[a].active_term_id = p,
                       !.focus = [owner |-> p, area |-> "Terminal"],
                       !.term_dirty = TRUE]

\* The lookup that opens LapceTerminal::event: the view's pane is in the
\* collection under the view's split id.
terminal_data_present(s, t, p) ==
    /\ t \in DOMAIN s.tabs
    /\ p \in s.tabs[t].terminals

\* LapceTerminal::event without the lookup that opens it.
terminal_event_no_lookup(s, t, p, kind) ==
    IF kind \in {"MouseDown", "Focus"} THEN request_focus(s, p) ELSE s

(***************************************************************************)
(* LapceTerminal::event for the pane view (t, p) and an event of `kind`.   *)
(***************************************************************************)
terminal_event(s, t, p, kind) ==
    IF ~terminal_data_present(s, t, p) THEN s
    ELSE IF kind \in {"MouseDown", "Focus"} THEN request_focus(s, p)
    ELSE s

\* Event::should_propagate_to_hidden for the kinds of event modelled:
\* commands do, pointer input does not.
should_propagate_to_hidden(kind) == kind \in {"Focus", "FocusPanel", "Other"}

\* The loop handing the event to every tab view.
tab_receives_always(s, tab_id, kind) == TRUE

\* The loop over self.tabs of TerminalPanel::event: the tab view of tab_id is
\* handed the event when it is a broadcast one or tab_id is the active split.
tab_receives(s, tab_id, kind) ==
    \/ should_propagate_to_hidden(kind)
    \/ tab_id = active_terminal_split(s)

\* The pane view the event reaches, if the panel hands it to that tab view.
tabs_event(s, ev) ==
    IF /\ ev.kind \in {"MouseDown", "Focus"}
       /\ ev.tab \in DOMAIN s.views
       /\ ev.pane \in s.views[ev.tab]
       /\ tab_receives(s, ev.tab, ev.kind)
    THEN terminal_event(s, ev.tab, ev.pane, ev.kind)
    ELSE s

\* Position (1-based) of the first slot of order that holds id, 0 if none.
RECURSIVE position(_, _, _)
position(order, id, i) ==
    IF i > Len(order) THEN 0
    ELSE IF order[i] = id THEN i
    ELSE position(order, id, i + 1)

\* The header item's event with the index taken one too far.
header_item_event_off_by_one(s, ev) ==
    IF ev.kind # "HeaderMouseDown" THEN s
    ELSE LET i == position(s.tabs_order, ev.tab, 1)
         IN  IF i = 0 THEN s
             ELSE [s EXCEPT !.active = i, !.term_dirty = TRUE]

(***************************************************************************)
(* LapceTerminalPanelHeaderContentItem::event: a press on the item of tab  *)
(* split_id, outside its close icon, selects the tab.                      *)
(***************************************************************************)
header_item_event(s, ev) ==
    IF ev.kind # "HeaderMouseDown" THEN s
    ELSE LET i == position(s.tabs_order, ev.tab, 1)
         IN  IF i = 0 THEN s
             ELSE [s EXCEPT !.active = i - 1, !.term_dirty = TRUE]

(***************************************************************************)
(* The prune pass that ends TerminalPanel::event.                          *)
(***************************************************************************)
\* The filter keeping one empty tab at most.
empty_tab_ids_at_most_one(s) ==
    LET e == {t \in DOMAIN s.tabs : s.tabs[t].terminals = {}}
    IN  IF e = {} THEN {} ELSE {CHOOSE t \in e : TRUE}

\* The tabs whose split has no pane (the filter that builds empty_tabs).
empty_tab_ids(s) == {t \in DOMAIN s.tabs : s.tabs[t].terminals = {}}

\* The orders in which the map's iterator may yield the ids of S.
Enumerations(S) ==
    {f \in [1..Cardinality(S) -> S] : \A i, j \in 1..Cardinality(S) :
                                          f[i] = f[j] => i = j}

\* Dropping the split views of the tabs ts drops their pane views; the Drop
\* of a LapceTerminal sends terminal_close for its session.
drop_tab_views(s, ts) ==
    [s EXCEPT !.closed = [p \in DOMAIN s.closed |->
                             s.closed[p] + Cardinality(
                                 {t \in ts \cap DOMAIN s.views : p \in s.views[t]})],
              !.views = RemoveKeys(@, ts)]

\* The for loop without the overwrite of the slot.
mark_slots_no_overwrite(order, empty_tabs, id_to_remove) == order

\* The for loop over empty_tabs, on tabs_order: the first slot that holds
\* tab_id is overwritten with id_to_remove.
RECURSIVE mark_slots(_, _, _)
mark_slots(order, empty_tabs, id_to_remove) ==
    IF empty_tabs = <<>> THEN order
    ELSE LET i == position(order, Head(empty_tabs), 1)
         IN  mark_slots(IF i = 0 THEN order
                        ELSE [order EXCEPT ![i] = id_to_remove],
                        Tail(empty_tabs), id_to_remove)

\* The slots of tabs_order the for loop visits: each find scans from the
\* first slot up to the slot that holds tab_id, or the whole vector.
RECURSIVE mark_visits(_, _, _)
mark_visits(order, empty_tabs, id_to_remove) ==
    IF empty_tabs = <<>> THEN 0
    ELSE LET i == position(order, Head(empty_tabs), 1)
         IN  (IF i = 0 THEN Len(order) ELSE i)
             + mark_visits(IF i = 0 THEN order
                           ELSE [order EXCEPT ![i] = id_to_remove],
                           Tail(empty_tabs), id_to_remove)

\* Vec::with_capacity(tabs_order.len() - removed_len)
new_order_capacity(order, removed_len) == Len(order) - removed_len

\* The rebuild with the filter's test turned round.
rebuild_order_keep_removed(order, id_to_remove) ==
    SelectSeq(order, LAMBDA id : id = id_to_remove)

\* new_order.extend(tabs_order.iter().filter(|id| *id != &id_to_remove))
rebuild_order(order, id_to_remove) ==
    SelectSeq(order, LAMBDA id : id # id_to_remove)

\* Lines 176-194: the removal of the empty tabs, for empty_tabs non-empty.
remove_empty_tabs(s, empty_tabs) ==
    LET id_to_remove == empty_tabs[1]
        removed_len == Len(empty_tabs)
        s1 == [drop_tab_views(s, Range(empty_tabs)) EXCEPT
                   !.tabs = RemoveKeys(@, Range(empty_tabs)),
                   !.term_dirty = TRUE,
                   !.order_dirty = TRUE]
        marked == mark_slots(s.tabs_order, empty_tabs, id_to_remove)
    IN  IF new_order_capacity(marked, removed_len) < 0
        THEN [s1 EXCEPT !.tabs_order = marked, !.fatal = TRUE]
        ELSE [s1 EXCEPT !.tabs_order = rebuild_order(marked, id_to_remove)]

\* The focus step without the case of the emptied collection.
focus_after_prune_always_terminal(s, main_active_tab) == handle_focus(s)

\* Lines 196-209: where the focus goes once tabs were removed;
\* main_active_tab is *data.main_split.active_tab, "None" or "Some".
focus_after_prune(s, main_active_tab) ==
    IF s.tabs_order = <<>>
    THEN LET s1 == IF s.panel_visible
                   THEN [s EXCEPT !.panel_visible = FALSE]
                   ELSE s
         IN  IF main_active_tab # "None"
             THEN [s1 EXCEPT !.sent = Append(@, MainTarget)]
             ELSE s1
    ELSE handle_focus(s)

\* Lines 156-210.
prune_empty(s, empty_tabs, main_active_tab) ==
    IF empty_tabs = <<>> THEN s
    ELSE LET s1 == remove_empty_tabs(s, empty_tabs)
         IN  IF s1.fatal THEN s1 ELSE focus_after_prune(s1, main_active_tab)

\* Lines 131-147: the Focus command to the panel, the header, the tab views.
dispatch(s, ev) ==
    LET s1 == IF ev.kind = "FocusPanel" THEN handle_focus(s) ELSE s
    IN  tabs_event(header_item_event(s1, ev), ev)

(***************************************************************************)
(* History: what the last step did.                                        *)
(***************************************************************************)
NoEvent == [kind |-> "None", tab |-> NoId, pane |-> NoId]

\* What one call of handle_focus found and did, read off the states around it.
FocusReq(pre, post) ==
    [had |-> active_terminal(pre),
     sent |-> SubSeq(post.sent, Len(pre.sent) + 1, Len(post.sent)),
     created |-> (DOMAIN post.tabs) \ (DOMAIN pre.tabs)]

\* Pane p is a pane of tab t in the collection of s.
InCollection(s, t, p) ==
    \E x \in DOMAIN s.tabs : x = t /\ p \in s.tabs[x].terminals

Quiet(op) ==
    [op |-> op, ev |-> NoEvent,
     delivered |-> FALSE,    \* the event reached a pane view
     stale |-> FALSE,        \* ... whose pane is not in the collection
     pane_same |-> TRUE,     \* the pane view's handler changed nothing
     active_before |-> 0,    \* the stored active index when the step started
     before |-> <<>>,        \* tabs_order when the prune pass started
     keys_before |-> {},     \* key set of tabs when it started
     nonempty |-> {},        \* the tabs that had a pane when it started
     after |-> <<>>,         \* tabs_order as rebuilt by the pass
     keys_after |-> {},      \* key set of tabs after the removal
     capacity |-> 0,         \* the capacity new_order was allocated with
     prune_same |-> TRUE,    \* the prune pass changed nothing
     hid |-> FALSE,          \* the pass hid the panel
     visible_before |-> FALSE,
     main |-> "Some",        \* data.main_split.active_tab as the pass read it
     prune_sent |-> <<>>,    \* commands the pass submitted
     prune_created |-> {},   \* tabs the pass created
     reqs |-> <<>>,          \* the calls of handle_focus
     tab_views |-> {},       \* the tabs that had a split view at the loop
     recipients |-> {},      \* the tabs whose split view was handed the event
     active_at_loop |-> 0,   \* the stored active index at the loop
     visits |-> 0,           \* slots of tabs_order the for loop visited
     changed |-> FALSE,      \* update found the collection changed
     sent |-> <<>>]          \* commands the step submitted

Commit(s) ==
    /\ tabs_order' = s.tabs_order
    /\ tabs' = s.tabs
    /\ active' = s.active
    /\ nextTab' = s.nextTab
    /\ views' = s.views
    /\ closed' = s.closed
    /\ focus' = s.focus
    /\ panel_visible' = s.panel_visible
    /\ term_dirty' = s.term_dirty
    /\ order_dirty' = s.order_dirty
    /\ fatal' = s.fatal

PaneViews(vs) == UNION {vs[t] : t \in DOMAIN vs}

(***************************************************************************)
(* One pane under pointer input: LapceTerminal::event for MouseDown and    *)
(* MouseMove, and LapceTerminal::select.  The focus request a press starts *)
(* with is request_focus above.                                            *)
(***************************************************************************)
\* Pointer positions (pixels, relative to the pane; negative while a drag
\* has left the pane by its left or top edge).
PointerXs == {-3, -1, 2, 7}
PointerYs == {-3, -1, 2}

\* The largest click count of a press.
MaxCount == 3

\* term.selection = None
NoSelection == [ty |-> "None", anchor |-> <<0, 0>>, head |-> <<0, 0>>]

\* The pane sizes and session sizes a behaviour may run with: self.width,
\* self.height, the metrics char_width and line_height that paint uses,
\* term.columns() = floor(width / char_width), term.screen_lines() =
\* floor(height / line_height) as layout's resize left them, display_offset.
Geometries ==
    {[width |-> 6, height |-> 4, char_width |-> 2, line_height |-> 2,
      columns |-> 3, screen_lines |-> 2, display_offset |-> 0],
     [width |-> 6, height |-> 5, char_width |-> 2, line_height |-> 2,
      columns |-> 3, screen_lines |-> 2, display_offset |-> 1]}

SelStart(g) ==
    [width |-> g.width, height |-> g.height,
     char_width |-> g.char_width, line_height |-> g.line_height,
     columns |-> g.columns,
     screen_lines |-> g.screen_lines, display_offset |-> g.display_offset,
     selection |-> NoSelection,
     op |-> "init",               \* the last handler
     button |-> "None", count |-> 0, has_left |-> FALSE,
     pos |-> [x |-> 0, y |-> 0],  \* its pointer position
     before |-> NoSelection,      \* the selection it found
     found |-> NoSelection,       \* the selection select found
     point |-> <<0, 0>>,          \* the grid point select computed
     selected |-> FALSE]          \* it called select

SelIdle ==
    SelStart([width |-> 6, height |-> 4, char_width |-> 2, line_height |-> 2,
              columns |-> 3, screen_lines |-> 2, display_offset |-> 0])

\* (n / d) as usize for d > 0: the fraction is dropped, a negative value
\* saturates to 0.
as_usize(n, d) == IF n < 0 THEN 0 ELSE n \div d

\* (n / d) as i32 for d > 0: rounds toward zero.
as_i32(n, d) == IF n < 0 THEN -((-n) \div d) ELSE n \div d

\* The column select computed, clamped to the last column.
grid_point_clamped(s, pos) ==
    <<as_i32(pos.y * s.screen_lines, s.height) - s.display_offset,
      Min(as_usize(pos.x * s.columns, s.width), s.columns - 1)>>

\* Lines 1239-1243: the grid point <<line, column>> of a pointer position.
\* pos.x / col_size with col_size = width / columns is pos.x * columns / width.
grid_point(s, pos) ==
    <<as_i32(pos.y * s.screen_lines, s.height) - s.display_offset,
      as_usize(pos.x * s.columns, s.width)>>

\* Selection::new(ty, point, side): both ends of the region at point.
Selection_new(ty, point) == [ty |-> ty, anchor |-> point, head |-> point]

\* An update that moves the whole region to the point.
Selection_update_moves_anchor(selection, point) ==
    [selection EXCEPT !.anchor = point, !.head = point]

\* Selection::update(point, side): the end of the region moves to point.
Selection_update(selection, point) == [selection EXCEPT !.head = point]

\* LapceTerminal::select
select(s, pos, ty) ==
    LET point == grid_point(s, pos)
    IN  IF s.selection # NoSelection
        THEN [s EXCEPT !.selection = Selection_update(@, point),
                       !.found = s.selection,
                       !.point = point, !.selected = TRUE]
        ELSE [s EXCEPT !.selection = Selection_new(ty, point),
                       !.found = s.selection,
                       !.point = point, !.selected = TRUE]

\* The left press without the clearing of the selection.
mouse_down_left_keeps_selection(s, pos, count) ==
    IF count = 2 THEN select(s, pos, "Semantic")
    ELSE IF count = 3 THEN select(s, pos, "Lines")
    ELSE s

\* Lines 1310-1320: a press of the left button with click count `count`.
mouse_down_left(s, pos, count) ==
    IF count = 2 THEN select(s, pos, "Semantic")
    ELSE LET s1 == [s EXCEPT !.selection = NoSelection]
         IN  IF count = 3 THEN select(s1, pos, "Lines") ELSE s1

\* Lines 1293-1309: a press of the right button; has_text is whether
\* term.selection_to_string() is Some.  The clipboard and the session are
\* outside the state kept here.
mouse_down_right(s, has_text) ==
    IF has_text THEN [s EXCEPT !.selection = NoSelection] ELSE s

\* Lines 1322-1329
mouse_move(s, pos, has_left) ==
    IF has_left THEN select(s, pos, "Simple") ELSE s

\* The record of a handler about to run.
SelEnter(op, button, count, has_left, pos) ==
    [sel EXCEPT !.op = op, !.button = button, !.count = count,
                !.has_left = has_left, !.pos = pos, !.before = sel.selection,
                !.found = NoSelection, !.point = <<0, 0>>,
                !.selected = FALSE]

SelMouseDownLeft ==
    \E x \in PointerXs, y \in PointerYs, count \in 1..MaxCount :
        sel' = mouse_down_left(
                   SelEnter("MouseDown", "Left", count, FALSE,
                            [x |-> x, y |-> y]),
                   [x |-> x, y |-> y], count)

SelMouseDownRight ==
    \E x \in PointerXs, y \in PointerYs, has_text \in BOOLEAN :
        /\ has_text => sel.selection # NoSelection
        /\ sel' = mouse_down_right(
                      SelEnter("MouseDown", "Right", 1, FALSE,
                               [x |-> x, y |-> y]),
                      has_text)

SelMouseMove ==
    \E x \in PointerXs, y \in PointerYs, has_left \in BOOLEAN :
        sel' = mouse_move(
                   SelEnter("MouseMove", "None", 0, has_left,
                            [x |-> x, y |-> y]),
                   [x |-> x, y |-> y], has_left)

(***************************************************************************)
(* One pane under layout, paint and keys: LapceTerminal::layout, the cells *)
(* LapceTerminal::paint draws, LapceTerminal::event for KeyDown.           *)
(***************************************************************************)
\* The sizes (pixels) a layout pass may hand to the pane: bc.max().
Sizes == {<<4, 4>>, <<6, 4>>, <<6, 6>>}

\* config.terminal_char_width and config.terminal_line_height (pixels).
CharWidths == {1, 2}
LineHeights == {1, 2}

\* terminal.mode: Mode::Terminal forwards keys to the shell, Mode::Normal
\* stands for the modes that do not.
Modes == {"Terminal", "Normal"}

\* LapceTerminal::new: width and height are 0.0; the session has the size it
\* was started with.
PaneIdle ==
    [width |-> 0, height |-> 0,
     char_width |-> 1, line_height |-> 1,   \* the configuration's metrics
     cols |-> 1, rows |-> 1,                \* the size the session was given
     mode |-> "Terminal",
     laid_out |-> FALSE,        \* a layout pass ran since size or font changed
     op |-> "init",             \* the last handler
     resized |-> FALSE,         \* it called resize
     consumed |-> FALSE,        \* key_down returned true
     forwarded |-> FALSE,       \* send_keypress was called
     handled |-> FALSE]         \* ctx.set_handled was called

\* LapceTerminal::layout, for a pane that is in the collection.
terminal_layout(s, size) ==
    IF s.width # size[1] \/ s.height # size[2]
    THEN [s EXCEPT !.width = size[1], !.height = size[2],
                   !.cols = IF s.char_width > 0 THEN size[1] \div s.char_width
                            ELSE 0,
                   !.rows = size[2] \div s.line_height,
                   !.resized = TRUE, !.laid_out = TRUE, !.op = "layout"]
    ELSE [s EXCEPT !.resized = FALSE, !.laid_out = TRUE, !.op = "layout"]

\* The key handler forwarding whatever the keymap did not consume.
terminal_key_down_any_mode(s, consumed, mode_after) ==
    [s EXCEPT !.mode = mode_after, !.consumed = consumed,
              !.forwarded = ~consumed, !.handled = TRUE,
              !.resized = FALSE, !.op = "KeyDown"]

\* Lines 1334-1347 and 1356-1363: key_down returns `consumed` and leaves the
\* pane's mode as mode_after; the pane's data is written back.
terminal_key_down(s, consumed, mode_after) ==
    [s EXCEPT !.mode = mode_after, !.consumed = consumed,
              !.forwarded = ~consumed /\ mode_after = "Terminal",
              !.handled = TRUE,
              !.resized = FALSE, !.op = "KeyDown"]

\* The right edge of the last column of cells a paint draws and the bottom
\* edge of the last line: x = column * char_width, y = line * line_height.
drawn_right(s) == s.cols * s.char_width
drawn_bottom(s) == s.rows * s.line_height

PaneLayout ==
    \E size \in Sizes : pane' = terminal_layout(pane, size)

\* The configuration's font changes.
PaneConfigChange ==
    \E cw \in CharWidths, lh \in LineHeights :
        /\ <<cw, lh>> # <<pane.char_width, pane.line_height>>
        /\ pane' = [pane EXCEPT !.char_width = cw, !.line_height = lh,
                                !.laid_out = FALSE, !.resized = FALSE,
                                !.op = "config"]

\* A paint pass; a layout pass has run since the last change.
PanePaint ==
    /\ pane.laid_out
    /\ pane.op # "paint"
    /\ pane' = [pane EXCEPT !.op = "paint", !.resized = FALSE]

PaneKeyDown ==
    \E consumed \in BOOLEAN, mode_after \in Modes :
        pane' = terminal_key_down(pane, consumed, mode_after)

(***************************************************************************)
(* One paint pass of a pane: the search-highlight loop that ends           *)
(* LapceTerminal::paint (lines 1579-1637).  Term::search_next belongs to   *)
(* the alacritty_terminal crate; it is modelled by what it does for a      *)
(* literal pattern on a grid whose lines do not wrap.                      *)
(***************************************************************************)
\* term.screen_lines() and term.columns() of the grid searched.
ScreenLines == 2
Columns == 2
\* Lines of scrollback a grid may hold.
MaxHistory == 2

Chars == {"a", "b"}
\* data.find.search_string
Patterns == {<<"a">>, <<"a", "b">>}

NoMatch == [start |-> <<0, -1>>, end |-> <<0, -1>>]
NoPoint == <<0, -1>>

\* Points <<line, column>> in reading order.
point_lt(p, q) == p[1] < q[1] \/ (p[1] = q[1] /\ p[2] < q[2])

topmost_line(s) == -s.history
bottommost_line(s) == ScreenLines - 1
last_column(s) == Columns - 1
total_lines(s) == s.history + ScreenLines

\* The matches of one line in the order the regex iterator yields them:
\* leftmost first, the next one looked for behind the end of the last.
RECURSIVE line_matches(_, _, _)
line_matches(s, line, col) ==
    IF col + Len(s.pattern) > Columns THEN <<>>
    ELSE IF \A k \in 1..Len(s.pattern) :
                s.grid[<<line, col + k - 1>>] = s.pattern[k]
         THEN <<[start |-> <<line, col>>,
                 end |-> <<line, col + Len(s.pattern) - 1>>]>>
              \o line_matches(s, line, col + Len(s.pattern))
         ELSE line_matches(s, line, col + 1)

\* The line that follows `line`, the topmost one after the bottommost one.
next_line(s, line) ==
    IF line = bottommost_line(s) THEN topmost_line(s) ELSE line + 1

\* Line::grid_clamp(Boundary::None): lines past an end of the grid wrap round.
wrap_line(s, line) ==
    topmost_line(s) + ((line - topmost_line(s)) % total_lines(s))

\* The matches of the lines from `line` to `end`, wrapping round the grid.
RECURSIVE regex_iter(_, _, _)
regex_iter(s, line, end) ==
    line_matches(s, line, 0)
    \o (IF line = end THEN <<>> ELSE regex_iter(s, next_line(s, line), end))

\* Term::search_next(dfas, origin, Direction::Right, Side::Left,
\* Some(max_lines)).  A budget that does not leave a line of the grid out is
\* dropped; the search runs from the start of origin's line to the end of
\* the line `budget` lines on, or once round the grid; the first match that
\* starts at or behind origin, or on a line before origin's, is the result,
\* and the first match of all when there is none.  A negative max_lines
\* stands for the usize it wraps to, 2^64 + max_lines, which the release
\* build adds to the line as an i32.
search_next(s, origin, max_lines) ==
    LET start_line == origin[1]
        whole == max_lines >= 0 /\ ~(max_lines + 1 < total_lines(s))
        end == IF whole THEN wrap_line(s, start_line - 1)
               ELSE wrap_line(s, start_line + max_lines)
        ms == regex_iter(s, start_line, end)
        beyond == {i \in 1..Len(ms) :
                      \/ ms[i].start[1] < start_line
                      \/ ms[i].start[1] > origin[1]
                      \/ /\ ms[i].start[1] = origin[1]
                         /\ ms[i].start[2] >= origin[2]}
    IN  IF ms = <<>> THEN NoMatch
        ELSE IF beyond = {} THEN ms[1]
        ELSE ms[CHOOSE i \in beyond : \A j \in beyond : i <= j]

\* Lines 1626-1632: the cursor for the next query, from the end of a match.
advance(s, end) ==
    IF end[2] < last_column(s) THEN <<end[1], end[2] + 1>>
    ELSE IF end[1] < bottommost_line(s) THEN <<end[1] + 1, 0>>
    ELSE end

\* Lines 1588-1589
search_end_line(s) ==
    Min(-s.display_offset + ScreenLines, bottommost_line(s))

\* Lines 1592-1634: one turn of the loop, m the result of its query.
search_step(s, m) ==
    IF m = NoMatch THEN [s EXCEPT !.pc = "done", !.outlined = FALSE]
    ELSE IF point_lt(m.start, s.start)
    THEN [s EXCEPT !.pc = "done", !.outlined = FALSE, !.stale = TRUE]
    ELSE LET start == advance(s, m.end)
         IN  [s EXCEPT
                !.start = start,
                !.max_lines = s.end_line - start[1],
                !.outlined = TRUE,
                !.stale = FALSE,
                !.ordered = @ /\ (s.prev = NoPoint \/ point_lt(s.prev, m.start)),
                !.in_window = @ /\ m.start[1] >= -s.display_offset
                                /\ m.start[1] <= s.end_line,
                !.advanced = @ /\ point_lt(s.start, start),
                !.prev = m.start,
                !.last_end = m.end]

Grids(history) ==
    {g \in [((-MaxHistory)..(ScreenLines - 1)) \X (0..(Columns - 1)) -> Chars] :
        \A c \in 0..(Columns - 1), l \in (-MaxHistory)..(-history - 1) :
            g[<<l, c>>] = "b"}

SearchStart(history, grid, pattern, display_offset) ==
    [history |-> history, grid |-> grid, pattern |-> pattern,
     display_offset |-> display_offset,
     pc |-> "paint",            \* "paint", "loop", "done", "aborted"
     start |-> <<0, 0>>,        \* the search cursor
     end_line |-> 0,
     max_lines |-> 0,           \* the budget of the next query
     outlined |-> FALSE,        \* the last turn outlined its match
     stale |-> FALSE,           \* its match started before the cursor
     prev |-> NoPoint,          \* start of the match outlined last
     last_end |-> NoPoint,      \* end of the match outlined last
     ordered |-> TRUE,          \* every outline started behind the one before
     in_window |-> TRUE,        \* every outline started in the window
     advanced |-> TRUE,         \* every outline moved the cursor forward
     budget_ok |-> TRUE,        \* every query's budget was in 0..screen_lines
     turn |-> 0]                \* parity of the number of turns of the loop

SearchIdle ==
    SearchStart(0, [pt \in ((-MaxHistory)..(ScreenLines - 1))
                              \X (0..(Columns - 1)) |-> "b"],
                <<"a">>, 0)

\* Lines 1582-1590: the cursor, the window's last line and the first budget.
SearchBegin ==
    /\ srch.pc = "paint"
    /\ srch' = [srch EXCEPT
                  !.pc = "loop",
                  !.start = <<-srch.display_offset, 0>>,
                  !.end_line = search_end_line(srch),
                  !.max_lines = search_end_line(srch) + srch.display_offset]

\* One turn of the loop.  With a budget that wrapped, the `max_lines + 1` of
\* search_next overflows: a build with overflow checks aborts, a build
\* without them searches on.
SearchStep ==
    /\ srch.pc = "loop"
    /\ \E checks \in {srch.max_lines < 0, FALSE} :
          IF checks
          THEN srch' = [srch EXCEPT !.pc = "aborted", !.budget_ok = FALSE,
                                    !.outlined = FALSE]
          ELSE \E s0 \in {[srch EXCEPT !.budget_ok =
                               @ /\ srch.max_lines \in 0..ScreenLines]} :
               \E m \in {search_next(s0, s0.start, s0.max_lines)} :
                   srch' = [search_step(s0, m) EXCEPT !.turn = 1 - @]

(***************************************************************************)
(* One paint pass of a pane: the selection highlight or cursor-line bar    *)
(* (lines 1435-1479), the background of a cell painted over it (1491-1527) *)
(* and the outline of a search match (1606-1618).  Columns and rows count  *)
(* cells; a rectangle [left, right) of row r spans x = left * char_width   *)
(* to right * char_width, y = r * line_height to (r + 1) * line_height.    *)
(***************************************************************************)
\* term.screen_lines() and term.columns() of the pane painted.
PaintLines == 3
PaintColumns == 3
\* The largest display_offset; one line of scrollback lies above the window.
PaintMaxOffset == 1

PaintPoints == ((-PaintMaxOffset)..(PaintLines - 1)) \X (0..(PaintColumns - 1))

\* content.selection = None
NoRange == [start |-> <<0, 0>>, end |-> <<0, 0>>, is_block |-> FALSE,
            some |-> FALSE]

\* content.selection: the ranges from start to end in reading order; a block
\* has its start column left of its end column.
SelectionRanges ==
    {NoRange} \cup
    {[start |-> a, end |-> b, is_block |-> k, some |-> TRUE] :
        a \in PaintPoints, b \in PaintPoints, k \in BOOLEAN}

WellFormedRange(r) ==
    \/ ~r.some
    \/ /\ \/ r.start[1] < r.end[1]
          \/ r.start[1] = r.end[1] /\ r.start[2] <= r.end[2]
       /\ r.is_block => r.start[2] <= r.end[2]

Colors == {"base", "other"}

PaintStart(selection, display_offset, mode) ==
    [selection |-> selection, display_offset |-> display_offset, mode |-> mode,
     pc |-> "paint",          \* "paint", then the part of the pass that ran
     rects |-> {},            \* the highlight rectangles [row, left, right]
     cell |-> <<0, 0>>,       \* the cell looked at: <<row, column>>
     bg |-> "base",           \* its resolved background
     under |-> "base",        \* what is painted under it
     shown |-> "base",        \* the colour the cell's area ends with
     filled |-> "base",       \* ... and if every background were painted
     m_start |-> <<0, 0>>,    \* the match outlined
     m_end |-> <<0, 0>>,
     cell_width |-> 1,        \* display width of the cell at its end
     width |-> 0,             \* the outline's width in columns
     underflow |-> FALSE,     \* the subtraction went below zero
     aborted |-> FALSE]       \* the pass aborted

PaintIdle == PaintStart(NoRange, 0, "Terminal")

\* if line < 0 { 0 } else { line as usize }
clamp_row(line) == IF line < 0 THEN 0 ELSE line

\* Lines 1435-1468: the rectangles filled for the selection, one per row from
\* start_line to end_line.
selection_rects(s) ==
    IF ~s.selection.some THEN {}
    ELSE LET sl == s.selection
             start_line == clamp_row(sl.start[1] + s.display_offset)
             end_line == clamp_row(sl.end[1] + s.display_offset)
             start_col == sl.start[2]
             end_col == sl.end[2]
         IN  {[row |-> line,
               left |-> IF sl.is_block \/ line = start_line
                        THEN start_col ELSE 0,
               right |-> IF sl.is_block \/ line = end_line
                         THEN end_col + 1 ELSE PaintColumns - 1] :
                 line \in start_line..end_line}

\* The columns of row r a set of rectangles covers.
covered(rects, r) ==
    {c \in 0..(PaintColumns - 1) :
        \E q \in rects : q.row = r /\ q.left <= c /\ c < q.right}

\* Lines 1435-1479: what lies under the cell <<r, c>> once the highlight is
\* painted: the selection's colour, the bar of the cursor's line when there
\* is no selection and the mode is not Terminal, or the panel's background.
under_cell(s, r, c, cursor_line) ==
    IF s.selection.some
    THEN IF c \in covered(selection_rects(s), r) THEN "selection" ELSE "base"
    ELSE IF s.mode # "Terminal" /\ r = cursor_line + s.display_offset
         THEN "current_line" ELSE "base"

\* Lines 1500-1520: the cell's background, swapped with its foreground when
\* the cell is inverse.
resolved_bg(bg, fg, inverse) == IF inverse THEN fg ELSE bg

\* The cell's background painted whatever its colour.
cell_shown_always_filled(under, bg) == bg

\* Lines 1522-1527: the background is filled unless it is the base colour.
cell_shown(under, bg) == IF bg # "base" THEN bg ELSE under

\* Lines 1613-1615: end.column - start.column + width in usize; with checks
\* the subtraction aborts when it goes below zero, without them the
\* arithmetic wraps, a negative n standing for 2^64 + n.
outline_width(s, m_start, m_end, cell_width, checks) ==
    LET under0 == m_end[2] < m_start[2]
    IN  [s EXCEPT !.pc = "outline",
                  !.m_start = m_start, !.m_end = m_end,
                  !.cell_width = cell_width,
                  !.underflow = under0,
                  !.aborted = under0 /\ checks,
                  !.width = IF under0 /\ checks THEN 0
                            ELSE m_end[2] - m_start[2] + cell_width]

PaintSelection ==
    /\ pnt.pc = "paint"
    /\ pnt' = [pnt EXCEPT !.pc = "selection", !.rects = selection_rects(pnt)]

PaintCell ==
    /\ pnt.pc = "paint"
    /\ \E r \in 0..(PaintLines - 1), c \in 0..(PaintColumns - 1),
          bg \in Colors, fg \in Colors, inverse \in BOOLEAN,
          cursor_line \in 0..(PaintLines - 1) :
          LET u == under_cell(pnt, r, c, cursor_line)
              b == resolved_bg(bg, fg, inverse)
          IN  pnt' = [pnt EXCEPT !.pc = "cell",
                                 !.rects = selection_rects(pnt),
                                 !.cell = <<r, c>>,
                                 !.bg = b, !.under = u,
                                 !.shown = cell_shown(u, b),
                                 !.filled = b]

\* A match on one line, or one that runs on into a later line of a wrapped
\* line and may there end left of where it started.
PaintOutline ==
    /\ pnt.pc = "paint"
    /\ \E m_start \in PaintPoints, m_end \in PaintPoints,
          cell_width \in {1, 2}, checks \in BOOLEAN :
          /\ \/ m_start[1] < m_end[1]
             \/ m_start[1] = m_end[1] /\ m_start[2] <= m_end[2]
          /\ pnt' = outline_width(pnt, m_start, m_end, cell_width, checks)

(***************************************************************************)
(* The session lock terminal.raw of one pane.  The pointer handlers take   *)
(* it with `let term = &mut terminal.raw.lock().term;` (lines 1292, 1325): *)
(* the guard is a temporary whose lifetime the `let` extends to the end of *)
(* the match arm.  paint binds the guard to `raw` (line 1431), which lives *)
(* to the end of the function.  The background reader that feeds the grid  *)
(* takes the same lock for each batch of output it applies.                *)
(***************************************************************************)
\* The grid mutations the reader makes in one run.
MaxVersion == 3
\* The search queries of one paint pass.
MaxQueries == 2

LockHandlers == {"mouse_down", "mouse_move", "paint"}

LockIdle ==
    [holder |-> "none",       \* "none", "ui" or "reader"
     handler |-> "none",      \* the handler running on the UI thread
     pc |-> "idle",           \* "idle", "locked", "read", "accessed"
     version |-> 0,           \* counts the reader's grid mutations
     seen |-> 0,              \* the version the handler's first read saw
     queries |-> 0,           \* accesses after the first read
     interleaved |-> FALSE,   \* a later access saw another version
     reader |-> "idle"]       \* "idle" or "locked"

\* Who holds the lock once a handler has made the step without its guard's
\* scope reaching to the end of the arm: the guard dropped at the end of the
\* statement that took it.
holder_after_statement_scope(step, handler) ==
    IF step = "lock" THEN "ui" ELSE "none"

\* Who holds the lock once a handler has made the step: the guard lives from
\* lock() to the end of the arm (lines 1292-1321, 1325-1328) or of paint
\* (lines 1431-1638).
holder_after(step, handler) ==
    IF step = "return" THEN "none" ELSE "ui"

\* Lines 1292, 1325, 1431: lock() waits until the lock is free.
LockAcquire ==
    /\ lk.pc = "idle"
    /\ lk.holder = "none"
    /\ \E h \in LockHandlers :
          lk' = [lk EXCEPT !.handler = h, !.pc = "locked",
                           !.holder = holder_after("lock", h),
                           !.seen = 0, !.queries = 0,
                           !.interleaved = FALSE]

\* Lines 1239-1241 (screen lines, columns, display offset) and line 1433
\* (the renderable snapshot): the handler's first read of the grid.
LockRead ==
    /\ lk.pc = "locked"
    /\ lk.holder # "reader"
    /\ lk' = [lk EXCEPT !.pc = "read",
                        !.holder = holder_after("read", lk.handler),
                        !.seen = lk.version]

\* Lines 1244-1255 (the selection written) and line 1591 (a search query of
\* the paint pass): an access after the first read.
LockAccess ==
    /\ lk.pc \in {"read", "accessed"}
    /\ lk.holder # "reader"
    /\ lk.queries < (IF lk.handler = "paint" THEN MaxQueries ELSE 1)
    /\ lk' = [lk EXCEPT !.pc = "accessed",
                        !.holder = holder_after("access", lk.handler),
                        !.queries = lk.queries + 1,
                        !.interleaved = lk.interleaved
                                        \/ lk.version # lk.seen]

\* Lines 1321, 1328, 1638: the end of the arm or of paint drops the guard.
LockReturn ==
    /\ lk.pc \in {"read", "accessed"}
    /\ lk.holder # "reader"
    /\ lk' = [lk EXCEPT !.pc = "idle",
                        !.holder = holder_after("return", lk.handler)]

\* The reader takes the lock for a batch of output, ...
ReaderAcquire ==
    /\ lk.reader = "idle"
    /\ lk.holder = "none"
    /\ lk.version < MaxVersion
    /\ lk' = [lk EXCEPT !.reader = "locked", !.holder = "reader"]

\* ... applies it to the grid, ...
ReaderMutate ==
    /\ lk.reader = "locked"
    /\ lk.version < MaxVersion
    /\ lk' = [lk EXCEPT !.version = lk.version + 1]

\* ... and lets the lock go.
ReaderRelease ==
    /\ lk.reader = "locked"
    /\ lk' = [lk EXCEPT !.reader = "idle", !.holder = "none"]

(***************************************************************************)
(* Init: an empty collection, a panel built from it.                       *)
(***************************************************************************)
Init ==
    /\ tabs_order = <<>>
    /\ tabs = [t \in {} |-> EmptySplit]
    /\ active = 0
    /\ nextTab = 1
    /\ nextPane = 1
    /\ views = [t \in {} |-> {}]
    /\ items = {}
    /\ closed = [p \in PaneIds |-> 0]
    /\ focus = [owner |-> NoId, area |-> "Editor"]
    /\ panel_visible = TRUE
    /\ term_dirty = FALSE
    /\ order_dirty = FALSE
    /\ fatal = FALSE
    /\ last = Quiet("init")
    /\ sel = SelIdle
    /\ pane = PaneIdle
    /\ srch = SearchIdle
    /\ pnt = PaintIdle
    /\ lk = LockIdle

(***************************************************************************)
(* The collection's own operations.                                        *)
(***************************************************************************)
\* open_tab
OpenTab ==
    /\ ~fatal
    /\ nextTab <= MaxTabs
    /\ \E s1 \in {new_tab(Cur)} : Commit(s1)
    /\ last' = Quiet("step")
    /\ UNCHANGED <<nextPane, items>>
    /\ UNCHANGED paneVars

\* close_tab(id): the panes of the split are removed, which leaves it empty
\* and a candidate of the next prune pass.
close_tab(s, t) ==
    [s EXCEPT !.tabs[t].terminals = {}, !.term_dirty = TRUE]

CloseTab ==
    /\ ~fatal
    /\ \E t \in DOMAIN tabs :
          /\ tabs[t].terminals # {}
          /\ \E s1 \in {close_tab(Cur, t)} : Commit(s1)
    /\ last' = Quiet("step")
    /\ UNCHANGED <<nextPane, items>>
    /\ UNCHANGED paneVars

\* add_pane: pane p joins split t; it becomes the active pane when the split
\* has none; the split view of t, when built, gets the pane's view.
add_pane(s, t, p) ==
    LET keep == s.tabs[t].active_term_id \in s.tabs[t].terminals
    IN  [s EXCEPT !.tabs[t] = [terminals |-> @.terminals \cup {p},
                               active |-> IF keep THEN @.active ELSE p,
                               active_term_id |->
                                   IF keep THEN @.active_term_id ELSE p],
                  !.views = IF t \in DOMAIN s.views
                            THEN [@ EXCEPT ![t] = @ \cup {p}]
                            ELSE @,
                  !.term_dirty = TRUE]

AddPane ==
    /\ ~fatal
    /\ nextPane <= MaxPanes
    /\ \E t \in DOMAIN tabs :
          \E s1 \in {add_pane(Cur, t, nextPane)} : Commit(s1)
    /\ nextPane' = nextPane + 1
    /\ last' = Quiet("step")
    /\ UNCHANGED items
    /\ UNCHANGED paneVars

\* remove_pane(id): the pane's view is torn down (dropped) and the pane is
\* discarded; when it was the active pane, pane q of the rest takes over.
remove_pane(s, t, p, q) ==
    LET has_view == t \in DOMAIN s.views /\ p \in s.views[t]
        was_active == s.tabs[t].active_term_id = p
    IN  [s EXCEPT !.tabs[t] = [terminals |-> @.terminals \ {p},
                               active |-> IF was_active THEN q ELSE @.active,
                               active_term_id |->
                                   IF was_active THEN q ELSE @.active_term_id],
                  !.views = IF has_view THEN [@ EXCEPT ![t] = @ \ {p}] ELSE @,
                  !.closed = IF has_view THEN [@ EXCEPT ![p] = @ + 1] ELSE @,
                  !.term_dirty = TRUE]

RemovePane ==
    /\ ~fatal
    /\ \E t \in DOMAIN tabs : \E p \in tabs[t].terminals :
          \E q \in IF tabs[t].terminals = {p} THEN {NoId}
                   ELSE tabs[t].terminals \ {p} :
              /\ \E s1 \in {remove_pane(Cur, t, p, q)} : Commit(s1)
              /\ last' = Quiet("step")
    /\ UNCHANGED <<nextPane, items>>
    /\ UNCHANGED paneVars

\* The panel is shown again (by the workbench).
ShowPanel ==
    /\ ~fatal
    /\ ~panel_visible
    /\ panel_visible' = TRUE
    /\ last' = Quiet("step")
    /\ UNCHANGED <<tabs_order, tabs, active, nextTab, nextPane, views, items,
                   closed, focus, term_dirty, order_dirty, fatal>>
    /\ UNCHANGED paneVars

(***************************************************************************)
(* TerminalPanel::event                                                    *)
(***************************************************************************)
\* The events that can enter the panel: a Focus command to the panel, a
\* Focus command or a mouse press to one of the pane views, a mouse press on
\* a header item, any other event.
Events ==
    {[kind |-> k, tab |-> NoId, pane |-> NoId] : k \in {"FocusPanel", "Other"}}
    \cup {[kind |-> k, tab |-> t, pane |-> p] :
             k \in {"MouseDown", "Focus"}, t \in DOMAIN views,
             p \in PaneViews(views)}
    \cup {[kind |-> "HeaderMouseDown", tab |-> t, pane |-> NoId] : t \in items}

PanelEvent ==
    /\ ~fatal
    /\ \E ev \in Events :
          /\ ev.kind \in {"MouseDown", "Focus"} => ev.pane \in views[ev.tab]
          /\ \E s0 \in {Cur} :
             \E sf \in {IF ev.kind = "FocusPanel" THEN handle_focus(s0) ELSE s0} :
             \E sh \in {header_item_event(sf, ev)} :
             \E s1 \in {dispatch(s0, ev)} :
             \E empty_tabs \in Enumerations(
                    IF s1.fatal THEN {} ELSE empty_tab_ids(s1)) :
             \E s2 \in {IF empty_tabs = <<>> THEN s1
                        ELSE remove_empty_tabs(s1, empty_tabs)} :
             \E main_active_tab \in {"None", "Some"} :
             \E s3 \in {prune_empty(s1, empty_tabs, main_active_tab)} :
                LET reached ==
                        /\ ev.kind \in {"MouseDown", "Focus"}
                        /\ tab_receives(sh, ev.tab, ev.kind)
                    req1 == IF ev.kind = "FocusPanel"
                            THEN <<FocusReq(s0, sf)>> ELSE <<>>
                    req2 == IF /\ empty_tabs # <<>>
                               /\ ~s2.fatal
                               /\ s2.tabs_order # <<>>
                            THEN <<FocusReq(s2, s3)>> ELSE <<>>
                IN  \* main_active_tab is an input only of a pass that reads it
                    /\ main_active_tab = "Some" \/ s2.tabs_order = <<>>
                    /\ main_active_tab = "Some" \/ empty_tabs # <<>>
                    /\ s3.nextTab <= MaxTabs + 1
                    /\ Commit(s3)
                    /\ last' =
                         [Quiet("event") EXCEPT
                            !.ev = ev,
                            !.delivered = reached,
                            !.stale = reached /\ ~InCollection(sh, ev.tab, ev.pane),
                            !.pane_same = (s1 = sh),
                            !.active_before = s0.active,
                            !.before = s1.tabs_order,
                            !.keys_before = DOMAIN s1.tabs,
                            !.nonempty = {t \in DOMAIN s1.tabs :
                                             s1.tabs[t].terminals # {}},
                            !.after = s2.tabs_order,
                            !.keys_after = DOMAIN s2.tabs,
                            !.capacity =
                                IF empty_tabs = <<>> THEN 0
                                ELSE new_order_capacity(s1.tabs_order,
                                                        Len(empty_tabs)),
                            !.prune_same = (s3 = s1),
                            !.visible_before = s1.panel_visible,
                            !.hid = s1.panel_visible /\ ~s3.panel_visible,
                            !.main = main_active_tab,
                            !.prune_sent = SubSeq(s3.sent, Len(s1.sent) + 1,
                                                  Len(s3.sent)),
                            !.prune_created =
                                (DOMAIN s3.tabs) \ (DOMAIN s2.tabs),
                            !.reqs = req1 \o req2,
                            !.tab_views = DOMAIN sh.views,
                            !.recipients =
                                {t \in DOMAIN sh.views :
                                    tab_receives(sh, t, ev.kind)},
                            !.active_at_loop = sh.active,
                            !.visits =
                                IF empty_tabs = <<>> THEN 0
                                ELSE mark_visits(s1.tabs_order, empty_tabs,
                                                 empty_tabs[1]),
                            !.sent = s3.sent]
    /\ UNCHANGED <<nextPane, items>>
    /\ UNCHANGED paneVars

(***************************************************************************)
(* TerminalPanel::update, with the header content's update it starts with. *)
(***************************************************************************)
\* LapceTerminalPanelHeaderContent::update: the items follow the tabs when
\* tabs_order changed or there is no item.
header_content_update(its, s) ==
    IF (s.term_dirty \/ its = {}) /\ (s.order_dirty \/ its = {})
    THEN (its \cup DOMAIN s.tabs) \cap DOMAIN s.tabs
    ELSE its

\* Lines 242-287.  The split views are brought in line with the tabs only
\* when tabs_order is the same vector as in old_data.
panel_update(s) ==
    IF ~s.term_dirty THEN s
    ELSE IF s.order_dirty THEN s
    ELSE LET missing == (DOMAIN s.tabs) \ (DOMAIN s.views)
             built == [t \in (DOMAIN s.views) \cup missing |->
                          IF t \in missing THEN s.tabs[t].terminals
                          ELSE s.views[t]]
             gone == (DOMAIN built) \ (DOMAIN s.tabs)
             changed == missing # {} \/ gone # {}
             s1 == drop_tab_views([s EXCEPT !.views = built], gone)
         IN  IF changed /\ DOMAIN s1.views # {}
             THEN [s1 EXCEPT !.sent = Append(@, PanelTarget)]
             ELSE s1

Update ==
    /\ ~fatal
    /\ term_dirty \/ items = {}
    /\ items' = header_content_update(items, Cur)
    /\ \E s1 \in {panel_update(Cur)} :
           /\ Commit([s1 EXCEPT !.term_dirty = FALSE, !.order_dirty = FALSE])
           /\ last' = [Quiet("update") EXCEPT !.sent = s1.sent,
                                               !.changed = term_dirty]
    /\ UNCHANGED nextPane
    /\ UNCHANGED paneVars

(***************************************************************************)
(* layout and paint: the panel runs them for the active split's view, the  *)
(* split view for each of its pane views.                                  *)
(***************************************************************************)
\* LapceTerminalHeader::get_icons (called by its layout) unwraps the pane's
\* data; LapceTerminal::layout does when the size changed.
terminal_view_layout_aborts(s, t, p, resized) ==
    \/ ~terminal_data_present(s, t, p)
    \/ resized /\ ~terminal_data_present(s, t, p)

\* LapceTerminal::paint unwraps the pane's data.
terminal_paint_aborts(s, t, p) == ~terminal_data_present(s, t, p)

\* The pane views the panel lays out or paints.
active_pane_views(s) ==
    LET t == active_terminal_split(s)
    IN  IF t # NoId /\ t \in DOMAIN s.views
        THEN {<<t, p>> : p \in s.views[t]}
        ELSE {}

Layout ==
    /\ ~fatal
    /\ \E resized \in BOOLEAN :
          fatal' = \E v \in active_pane_views(Cur) :
                       terminal_view_layout_aborts(Cur, v[1], v[2], resized)
    /\ UNCHANGED <<tabs_order, tabs, active, nextTab, nextPane, views, items,
                   closed, focus, panel_visible, term_dirty,
                   order_dirty, last>>
    /\ UNCHANGED paneVars

Paint ==
    /\ ~fatal
    /\ fatal' = \E v \in active_pane_views(Cur) :
                    terminal_paint_aborts(Cur, v[1], v[2])
    /\ UNCHANGED <<tabs_order, tabs, active, nextTab, nextPane, views, items,
                   closed, focus, panel_visible, term_dirty,
                   order_dirty, last>>
    /\ UNCHANGED paneVars

Next ==
    \/ OpenTab
    \/ CloseTab
    \/ AddPane
    \/ RemovePane
    \/ ShowPanel
    \/ PanelEvent
    \/ Update
    \/ Layout
    \/ Paint

Spec == Init /\ [][Next]_vars

(***************************************************************************)
(* The pane on its own: the panel stays as built.                          *)
(***************************************************************************)
PanelIdle ==
    /\ tabs_order = <<>>
    /\ tabs = [t \in {} |-> EmptySplit]
    /\ active = 0
    /\ nextTab = 1
    /\ nextPane = 1
    /\ views = [t \in {} |-> {}]
    /\ items = {}
    /\ closed = [p \in PaneIds |-> 0]
    /\ focus = [owner |-> NoId, area |-> "Editor"]
    /\ panel_visible = TRUE
    /\ term_dirty = FALSE
    /\ order_dirty = FALSE
    /\ fatal = FALSE
    /\ last = Quiet("init")

\* Pointer input to one pane.
SelectInit ==
    /\ PanelIdle
    /\ sel \in {SelStart(g) : g \in Geometries}
    /\ pane = PaneIdle
    /\ srch = SearchIdle
    /\ pnt = PaintIdle
    /\ lk = LockIdle

SelectNext ==
    \/ SelMouseDownLeft /\ UNCHANGED <<panelVars, pane, srch, pnt, lk>>
    \/ SelMouseDownRight /\ UNCHANGED <<panelVars, pane, srch, pnt, lk>>
    \/ SelMouseMove /\ UNCHANGED <<panelVars, pane, srch, pnt, lk>>

SelectSpec == SelectInit /\ [][SelectNext]_vars

\* Layout, paint and keys of one pane.
PaneInit ==
    /\ PanelIdle
    /\ sel = SelIdle
    /\ pane = PaneIdle
    /\ srch = SearchIdle
    /\ pnt = PaintIdle
    /\ lk = LockIdle

PaneNext ==
    \/ PaneLayout /\ UNCHANGED <<panelVars, sel, srch, pnt, lk>>
    \/ PaneConfigChange /\ UNCHANGED <<panelVars, sel, srch, pnt, lk>>
    \/ PanePaint /\ UNCHANGED <<panelVars, sel, srch, pnt, lk>>
    \/ PaneKeyDown /\ UNCHANGED <<panelVars, sel, srch, pnt, lk>>

PaneSpec == PaneInit /\ [][PaneNext]_vars

\* The search-highlight loop of one paint pass, for every grid, pattern and
\* display offset.
SearchInit ==
    /\ PanelIdle
    /\ sel = SelIdle
    /\ pane = PaneIdle
    /\ pnt = PaintIdle
    /\ lk = LockIdle
    /\ \E history \in {0, MaxHistory} :
       \E grid \in Grids(history) :
       \E pattern \in Patterns :
       \E display_offset \in 0..history :
           srch = SearchStart(history, grid, pattern, display_offset)

SearchNext ==
    \/ SearchBegin /\ UNCHANGED <<panelVars, sel, pane, pnt, lk>>
    \/ SearchStep /\ UNCHANGED <<panelVars, sel, pane, pnt, lk>>

SearchSpec == SearchInit /\ [][SearchNext]_vars

\* The loop keeps running while it can.
FairSearchSpec == SearchSpec /\ WF_vars(SearchNext)

\* What one paint pass draws, for every selection, display offset and mode.
PaintInit ==
    /\ PanelIdle
    /\ sel = SelIdle
    /\ pane = PaneIdle
    /\ srch = SearchIdle
    /\ lk = LockIdle
    /\ \E selection \in {r \in SelectionRanges : WellFormedRange(r)} :
       \E display_offset \in 0..PaintMaxOffset :
       \E mode \in Modes :
           pnt = PaintStart(selection, display_offset, mode)

PaintNext ==
    \/ PaintSelection /\ UNCHANGED <<panelVars, sel, pane, srch, lk>>
    \/ PaintCell /\ UNCHANGED <<panelVars, sel, pane, srch, lk>>
    \/ PaintOutline /\ UNCHANGED <<panelVars, sel, pane, srch, lk>>

PaintSpec == PaintInit /\ [][PaintNext]_vars

\* The pointer handlers and paint of one pane against the background reader.
LockInit ==
    /\ PanelIdle
    /\ sel = SelIdle
    /\ pane = PaneIdle
    /\ srch = SearchIdle
    /\ pnt = PaintIdle
    /\ lk = LockIdle

LockNext ==
    \/ LockAcquire /\ UNCHANGED <<panelVars, sel, pane, srch, pnt>>
    \/ LockRead /\ UNCHANGED <<panelVars, sel, pane, srch, pnt>>
    \/ LockAccess /\ UNCHANGED <<panelVars, sel, pane, srch, pnt>>
    \/ LockReturn /\ UNCHANGED <<panelVars, sel, pane, srch, pnt>>
    \/ ReaderAcquire /\ UNCHANGED <<panelVars, sel, pane, srch, pnt>>
    \/ ReaderMutate /\ UNCHANGED <<panelVars, sel, pane, srch, pnt>>
    \/ ReaderRelease /\ UNCHANGED <<panelVars, sel, pane, srch, pnt>>

LockSpec == LockInit /\ [][LockNext]_vars

(***************************************************************************)
(* Properties                                                              *)
(***************************************************************************)
\* The tabs the last prune pass removed.
Removed == last.keys_before \ last.keys_after

\* The panes of the collection.
Panes == UNION {tabs[t].terminals : t \in DOMAIN tabs}

\* s without the elements of S, in order.
Without(s, S) == SelectSeq(s, LAMBDA x : x \notin S)

NoDuplicates(s) == \A i, j \in 1..Len(s) : s[i] = s[j] => i = j

\* C1: after the prune pass that ends an event, the ids in tabs_order are
\* exactly the keys of tabs, and no id occurs twice in tabs_order.
C1_OrderMatchesTabs ==
    (last.op = "event" /\ ~fatal) =>
        /\ Range(tabs_order) = DOMAIN tabs
        /\ NoDuplicates(tabs_order)

\* An event whose prune pass removed two tabs and left one.
C1_Witness ==
    /\ last.op = "event"
    /\ ~fatal
    /\ Cardinality(Removed) >= 2
    /\ tabs_order # <<>>

\* C2: the prune pass rebuilds tabs_order as the old order without the
\* removed ids (survivors once each, in their old relative order), and the
\* capacity it allocates, old length minus removed count, is the new length
\* and not negative.
C2_PruneKeepsSurvivors ==
    (last.op = "event" /\ Removed # {}) =>
        /\ last.after = Without(last.before, Removed)
        /\ last.capacity = Len(last.after)
        /\ last.capacity = Len(last.before) - Cardinality(Removed)
        /\ last.capacity >= 0

\* A pass that removed two tabs, one of them ahead of a survivor.
C2_Witness ==
    /\ last.op = "event"
    /\ Cardinality(Removed) >= 2
    /\ \E i, j \in 1..Len(last.before) :
          /\ i < j
          /\ last.before[i] \in Removed
          /\ last.before[j] \notin Removed

\* C3: the prune pass removes exactly the tabs that have no pane when it
\* runs; with no such tab it changes nothing and submits no command; and
\* after every event no tab of the collection is empty.
C3_PruneRemovesExactlyEmpty ==
    (last.op = "event" /\ ~fatal) =>
        /\ Removed = last.keys_before \ last.nonempty
        /\ Range(last.after) = last.nonempty
        /\ Removed = {} => (last.prune_same /\ last.prune_sent = <<>>)
        /\ \A t \in DOMAIN tabs : tabs[t].terminals # {}

\* C4: a pane that has left the collection and whose view is gone has had
\* its session told to close exactly once.
C4_ClosedExactlyOnce ==
    \A p \in PaneIds :
        (p < nextPane /\ p \notin Panes /\ p \notin PaneViews(views))
            => closed[p] = 1

\* C5: a prune pass that leaves tabs_order empty hides the panel, submits
\* Focus to the main editor widget and nothing else, and creates no tab.
C5_EmptyFallsBackToMain ==
    (last.op = "event" /\ Removed # {} /\ last.after = <<>>) =>
        /\ ~panel_visible
        /\ last.prune_sent = <<MainTarget>>
        /\ last.prune_created = {}

\* C5 as amended: ... submits Focus to the main editor widget when one is
\* recorded as last active, and no command when none is.
C5_EmptyFallsBackToMainIfAny ==
    (last.op = "event" /\ Removed # {} /\ last.after = <<>>) =>
        /\ ~panel_visible
        /\ last.prune_sent =
               IF last.main = "Some" THEN <<MainTarget>> ELSE <<>>
        /\ last.prune_created = {}

\* The pass emptied a visible panel while a main editor widget was recorded.
C5_Witness ==
    /\ last.op = "event"
    /\ Removed # {}
    /\ last.after = <<>>
    /\ last.hid
    /\ last.main = "Some"

\* C6: every focus request the panel processed either submitted Focus to
\* the active pane of the active tab, which existed, and created no tab, or
\* found no active pane, created one tab and submitted nothing.
C6_FocusOrNewTab ==
    last.op = "event" =>
        \A i \in 1..Len(last.reqs) :
            LET r == last.reqs[i]
            IN  IF r.had # NoId
                THEN r.sent = <<PaneTarget(r.had)>> /\ r.created = {}
                ELSE r.sent = <<>> /\ Cardinality(r.created) = 1

\* An event with two focus requests: the Focus command found no active pane,
\* the request after the prune pass found one.
C6_Witness ==
    /\ last.op = "event"
    /\ Len(last.reqs) = 2
    /\ last.reqs[1].had = NoId
    /\ last.reqs[2].had # NoId

\* C7: with a non-empty tabs_order the stored active index is in range.
C7_StoredIndexInRange ==
    tabs_order # <<>> => active <= Len(tabs_order) - 1

\* C7 as amended: the stored index is changed by nothing but a press on the
\* header item of a tab that is in tabs_order, which sets it to that tab's
\* position (a prune pass leaves it as it is); the index the code reads, the
\* stored one clamped to len - 1, names a tab of the collection.
C7_ClampedIndexNamesTab ==
    /\ (last.op = "event" /\ ~fatal) =>
          IF /\ last.ev.kind = "HeaderMouseDown"
             /\ last.ev.tab \in Range(last.before)
          THEN /\ active < Len(last.before)
               /\ last.before[active + 1] = last.ev.tab
          ELSE active = last.active_before
    /\ tabs_order # <<>> =>
          /\ active_index(Cur) \in 0..(Len(tabs_order) - 1)
          /\ tabs_order[active_index(Cur) + 1] \in DOMAIN tabs

\* A prune pass took the tab under the stored index, which now is out of range.
C7_Witness ==
    /\ last.op = "event"
    /\ Removed # {}
    /\ tabs_order # <<>>
    /\ active > Len(tabs_order) - 1

\* C8: the active pane id of every split that has a pane is one of its panes.
C8_ActivePaneInSplit ==
    \A t \in DOMAIN tabs :
        tabs[t].terminals # {} =>
            /\ tabs[t].active \in tabs[t].terminals
            /\ tabs[t].active_term_id \in tabs[t].terminals

C10_NeverAborts == ~fatal

(***************************************************************************)
(* Properties of the pane                                                  *)
(***************************************************************************)
\* The kind of selection the last handler asked select for.
Requested ==
    IF sel.op = "MouseMove" THEN "Simple"
    ELSE IF sel.count = 2 THEN "Semantic"
    ELSE "Lines"

\* C11: select with no current selection creates one of the requested kind
\* with anchor = head = point; with a current selection it keeps the anchor
\* and the kind and sets head = point; so a drag move that finds a selection
\* leaves its anchor where it was.
C11_AnchorFixed ==
    /\ sel.selected =>
          IF sel.found = NoSelection
          THEN sel.selection =
                   [ty |-> Requested, anchor |-> sel.point, head |-> sel.point]
          ELSE sel.selection =
                   [ty |-> sel.found.ty, anchor |-> sel.found.anchor,
                    head |-> sel.point]
    /\ (sel.op = "MouseMove" /\ sel.before # NoSelection) =>
          /\ sel.selection # NoSelection
          /\ sel.selection.anchor = sel.before.anchor
          /\ sel.selection.ty = sel.before.ty

\* A drag move extended a selection to a point that is not its anchor.
C11_Witness ==
    /\ sel.op = "MouseMove"
    /\ sel.selected
    /\ sel.found # NoSelection
    /\ sel.found.head # sel.point
    /\ sel.selection.anchor # sel.selection.head

\* C12: for every pointer position, negative ones included, the grid point
\* is line = floor(y / row_height) - display_offset, column =
\* floor(x / col_width).
C12_PointIsFloor ==
    sel.selected =>
        sel.point =
            <<((sel.pos.y * sel.screen_lines) \div sel.height)
                  - sel.display_offset,
              (sel.pos.x * sel.columns) \div sel.width>>

\* C12 as amended: for x >= 0 the column is floor(x / col_width), not clamped
\* to the last column, and for x < 0 it is 0; for y >= 0 the line is
\* floor(y / row_height) - display_offset, and for y < 0 the quotient is
\* rounded toward zero.  row_height = height / screen_lines and col_width =
\* width / columns.
C12_PointTruncates ==
    sel.selected =>
        LET c == sel.point[2]
            l == sel.point[1] + sel.display_offset
            x == sel.pos.x * sel.columns
            y == sel.pos.y * sel.screen_lines
        IN  /\ x >= 0 => (c * sel.width <= x /\ x < (c + 1) * sel.width)
            /\ x < 0 => c = 0
            /\ y >= 0 => (l * sel.height <= y /\ y < (l + 1) * sel.height)
            /\ y < 0 => /\ l <= 0
                        /\ (-l) * sel.height <= -y
                        /\ -y < (1 - l) * sel.height

\* A drag to the right of the last column and above the pane.
C12_Witness ==
    /\ sel.op = "MouseMove"
    /\ sel.selected
    /\ sel.pos.y < 0
    /\ sel.point[2] > sel.columns - 1

\* C19: a left press with count 1 leaves no selection; with count 3 it
\* leaves a new Lines selection at the pressed point whatever was selected;
\* with count 2 and no selection it creates a Semantic selection at the
\* pressed point.
C19_LeftPress ==
    (sel.op = "MouseDown" /\ sel.button = "Left") =>
        LET at == grid_point(sel, sel.pos)
        IN  /\ sel.count = 1 => sel.selection = NoSelection
            /\ sel.count = 3 =>
                   sel.selection =
                       [ty |-> "Lines", anchor |-> at, head |-> at]
            /\ (sel.count = 2 /\ sel.before = NoSelection) =>
                   sel.selection =
                       [ty |-> "Semantic", anchor |-> at, head |-> at]

\* A triple click replaced a selection anchored elsewhere.
C19_Witness ==
    /\ sel.op = "MouseDown"
    /\ sel.button = "Left"
    /\ sel.count = 3
    /\ sel.before # NoSelection
    /\ sel.before.anchor # sel.selection.anchor
    /\ sel.before.ty # "Lines"

\* C16: at every paint the session has the size floor(width / char_width) x
\* floor(height / line_height) of the pane's size and the current metrics,
\* and no cell is drawn outside the pane.
C16_ResizedAtPaint ==
    pane.op = "paint" =>
        /\ pane.cols = pane.width \div pane.char_width
        /\ pane.rows = pane.height \div pane.line_height
        /\ drawn_right(pane) <= pane.width
        /\ drawn_bottom(pane) <= pane.height

\* C20: a key is forwarded to the session exactly when the keymap did not
\* consume it and the pane's mode after the keymap ran is Terminal; in any
\* other mode nothing is forwarded; the event is marked handled.
C20_KeyForwarding ==
    pane.op = "KeyDown" =>
        /\ pane.forwarded <=> (~pane.consumed /\ pane.mode = "Terminal")
        /\ pane.mode # "Terminal" => ~pane.forwarded
        /\ pane.handled

\* A key the keymap did not consume, in a pane whose mode is not Terminal.
C20_Witness ==
    /\ pane.op = "KeyDown"
    /\ ~pane.consumed
    /\ pane.mode = "Normal"
    /\ ~pane.forwarded
    /\ pane.handled

\* C13: the search-highlight loop of a paint pass comes to an end.
C13_SearchTerminates == <>(srch.pc \in {"done", "aborted"})

\* C14: the matches a pass outlines start at strictly increasing points, and
\* a match that starts before the cursor is not outlined.
C14_OutlinesIncrease ==
    /\ srch.ordered
    /\ srch.stale => ~srch.outlined

\* C15: every outlined match starts on a line of the window and every
\* query's budget is in 0..screen_lines.
C15_WindowOnly ==
    /\ srch.in_window
    /\ srch.budget_ok

(***************************************************************************)
(* Properties of the panel, continued                                      *)
(***************************************************************************)
\* The tab the stored index named when the event reached the tab views.
ActiveAtLoop ==
    IF last.before = <<>> THEN NoId
    ELSE last.before[Min(last.active_at_loop, Len(last.before) - 1) + 1]

\* C17: an event that does not propagate to hidden widgets is handed to the
\* split view of the active tab and to no other; one that does is handed to
\* every split view; layout and paint run for pane views of the active tab
\* only.
C17_ActivePathOnly ==
    /\ last.op = "event" =>
          IF last.ev.kind \in {"MouseDown", "HeaderMouseDown"}
          THEN last.recipients = last.tab_views \cap {ActiveAtLoop}
          ELSE last.recipients = last.tab_views
    /\ tabs_order # <<>> =>
          \A v \in active_pane_views(Cur) :
              v[1] = tabs_order[Min(active, Len(tabs_order) - 1) + 1]

\* A mouse press with two split views built, handed to one of them.
C17_Witness ==
    /\ last.op = "event"
    /\ last.ev.kind = "MouseDown"
    /\ Cardinality(last.tab_views) >= 2
    /\ Cardinality(last.recipients) = 1

C21_SingleScan ==
    last.op = "event" => last.visits <= Len(last.before)

\* The tabs that were empty when the last prune pass started.
EmptyAtPrune == last.keys_before \ last.nonempty

C26_ActiveTabSurvives ==
    (/\ last.op = "event"
     /\ ~fatal
     /\ Removed # {}
     /\ last.before # <<>>
     /\ ActiveAtLoop \notin Removed) =>
        /\ tabs_order # <<>>
        /\ tabs_order[active_index(Cur) + 1] = ActiveAtLoop

\* C27: after an update that found the collection changed, the keys of the
\* panel's view map are the tab ids of the collection.
C27_ViewsFollowTabs ==
    (last.op = "update" /\ last.changed) => DOMAIN views = DOMAIN tabs

\* C28: for a pointer inside the painted grid area, the cell select derives
\* is the cell whose painted rectangle, [column * char_width, (column + 1) *
\* char_width) x [(line + display_offset) * line_height, (line +
\* display_offset + 1) * line_height), holds the pointer.
C28_PointerHitsPaintedCell ==
    (/\ sel.selected
     /\ sel.pos.x >= 0 /\ sel.pos.x < sel.columns * sel.char_width
     /\ sel.pos.y >= 0 /\ sel.pos.y < sel.screen_lines * sel.line_height) =>
        LET column == sel.point[2]
            row == sel.point[1] + sel.display_offset
        IN  /\ column * sel.char_width <= sel.pos.x
            /\ sel.pos.x < (column + 1) * sel.char_width
            /\ row * sel.line_height <= sel.pos.y
            /\ sel.pos.y < (row + 1) * sel.line_height

\* C22: for a non-block selection over at least three visible lines, the
\* highlight of every line strictly between the first and the last covers
\* every column from 0 to the last column.
C22_MiddleLinesFullWidth ==
    (/\ pnt.pc = "selection"
     /\ pnt.selection.some
     /\ ~pnt.selection.is_block
     /\ pnt.selection.start[1] + pnt.display_offset >= 0
     /\ pnt.selection.end[1] + pnt.display_offset
            >= pnt.selection.start[1] + pnt.display_offset + 2) =>
        \A row \in (pnt.selection.start[1] + pnt.display_offset + 1)
                       ..(pnt.selection.end[1] + pnt.display_offset - 1) :
            covered(pnt.rects, row) = 0..(PaintColumns - 1)

\* C29: a non-block selection that starts above the visible top and ends in
\* the window is highlighted from column 0 on the top visible line, and a
\* selection wholly above the visible top paints no rectangle.
C29_ClippedToWindow ==
    (pnt.pc = "selection" /\ pnt.selection.some) =>
        /\ (/\ ~pnt.selection.is_block
            /\ pnt.selection.start[1] + pnt.display_offset < 0
            /\ pnt.selection.end[1] + pnt.display_offset >= 0) =>
               \A q \in pnt.rects : q.row = 0 => q.left = 0
        /\ pnt.selection.end[1] + pnt.display_offset < 0 =>
               pnt.rects = {}

\* C23 as stated: whatever lies under a cell, its area ends with the colour
\* it would have if the background of every cell were painted.
C23_SkipIsInvisible ==
    pnt.pc = "cell" => pnt.shown = pnt.filled

\* C23: skipping a base-coloured background changes nothing where nothing is
\* painted under the cell or the cell's background is not the base colour;
\* over a selection highlight or a cursor-line bar a base-coloured cell shows
\* what lies under it, where painting its background would cover that.
C23_SkipKeepsHighlight ==
    pnt.pc = "cell" =>
        /\ (pnt.under = "base" \/ pnt.bg # "base") => pnt.shown = pnt.filled
        /\ (pnt.bg = "base" /\ pnt.under # "base") =>
               /\ pnt.shown = pnt.under
               /\ pnt.filled = "base"

C23_Witness ==
    /\ pnt.pc = "cell"
    /\ pnt.bg = "base"
    /\ pnt.under = "selection"
    /\ pnt.shown = "selection"

\* C24: the outline of a match is end.column - start.column + the display
\* width of the cell at its end wide, computed without underflow and at
\* least 1, also for a match that ends on a later line than it starts.
C24_OutlineWidth ==
    pnt.pc = "outline" =>
        /\ ~pnt.underflow
        /\ ~pnt.aborted
        /\ pnt.width = pnt.m_end[2] - pnt.m_start[2] + pnt.cell_width
        /\ pnt.width >= 1

\* C30: a handler holds the lock from lock() to its return, every access
\* after its first read sees the grid version the first read saw, and the
\* lock is not held by the UI thread once the handler has returned.
C30_LockHeldThroughHandler ==
    /\ lk.pc \in {"locked", "read", "accessed"} => lk.holder = "ui"
    /\ ~lk.interleaved
    /\ lk.pc = "idle" => lk.holder # "ui"

C30_Witness ==
    /\ lk.pc = "accessed"
    /\ lk.handler = "paint"
    /\ lk.queries = MaxQueries
    /\ lk.seen >= 1
    /\ lk.version = lk.seen

====
